---- MODULE Spec2Model ----
(***************************************************************************)
(* Model of the interval collection of daniel-gil/intervals                *)
(* (src/intervals.go): the struct `intervals` with its operations Add,     *)
(* FindIntervalsForValue, Sort, Gaps, Overlapped and Print.                *)
(*                                                                         *)
(* The collection is the record                                            *)
(*   [Intervals, MinLow, MaxHigh, Sorted]                                  *)
(* with the field names of the Go struct.  Every method is an operator     *)
(* that takes the receiver and returns [self |-> receiver afterwards,      *)
(* ret |-> returned value]; the actions apply the operators to the state.  *)
(*                                                                         *)
(* Go's int is 64 bits wide.  All coordinates of the model stay far from   *)
(* the ends of that range, so `High + 1` and `Low - 1` never wrap here.    *)
(***************************************************************************)
EXTENDS Integers, Sequences, FiniteSets

VARIABLES
    intvls,     \* the receiver: [Intervals, MinLow, MaxHigh, Sorted]
    inputs,     \* the intervals the caller may pass to Add
    added,      \* history: every interval passed to Add, in call order
    lastOp,     \* name of the method called last ("NewIntervals" at first)
    value,      \* argument of the last FindIntervalsForValue call
    result,     \* slice returned by the last Gaps/Overlapped/Find call
    output      \* string returned by the last Print call

vars == <<intvls, inputs, added, lastOp, value, result, output>>

----------------------------------------------------------------------------
(* Bounds of the model *)

\* Most intervals a collection holds (Add is disabled beyond it).
MaxItems == 3

\* The general input pool uses the coordinates CoordMin .. CoordMin + Width.
Width == 2

----------------------------------------------------------------------------
(* Program constants *)

blockSize == 10

\* math.MaxInt64 and math.MinInt64: the initial envelope of Overlapped, the
\* greatest and the least int.  TLC's integers are 32 bits wide, so the
\* model uses the greatest and the least integer of that range (the least,
\* -2^31, has no literal and is written as a difference); both are only
\* ever compared with coordinates, never added to.
MaxInt64 == 2147483647
MinInt64 == (-2147483647) - 1

\* The symbols of Print.  The module's strings cannot hold the box-drawing
\* and bullet characters of the source, so four of them are written with an
\* ASCII character that occurs nowhere else in the output:
\*   "|" for U+2551 (separator), "*" for U+2022 (bullet),
\*   "{" for U+2560 and "}" for U+2563 (the frame of the graph).
emptySymbol == "◌"
fullSymbol == "◎"
overlapSymbol == "●"
separator == "|"
bullet == "*"
frameLeft == "{"
frameRight == "}"

----------------------------------------------------------------------------
(* Helpers the source uses *)

Interval(low, high) == [Low |-> low, High |-> high]

\* func inBetweenInclusive(value, low, high int) bool
inBetweenInclusive(v, low, high) == low <= v /\ v <= high

max(a, b) == IF a > b THEN a ELSE b
min(a, b) == IF a < b THEN a ELSE b

\* ByLow.Less: the comparator looks at Low only.
Less(a, b) == a.Low < b.Low

Swap(data, i, j) == [data EXCEPT ![i] = data[j], ![j] = data[i]]

\* sort.Sort on a slice of at most 12 elements is the library's
\* insertionSort:
\*   for i := a + 1; i < b; i++ {
\*       for j := i; j > a && data.Less(j, j-1); j-- { data.Swap(j, j-1) }
\*   }
RECURSIVE SiftDown(_, _)
SiftDown(data, j) ==
    IF j > 1 /\ Less(data[j], data[j - 1])
    THEN SiftDown(Swap(data, j, j - 1), j - 1)
    ELSE data

RECURSIVE InsertionSortFrom(_, _)
InsertionSortFrom(data, i) ==
    IF i > Len(data) THEN data
    ELSE InsertionSortFrom(SiftDown(data, i), i + 1)

SortByLow(data) == InsertionSortFrom(data, 2)

\* fmt.Sprintf("%d", n)
Digits == <<"0", "1", "2", "3", "4", "5", "6", "7", "8", "9">>

RECURSIVE FormatNat(_)
FormatNat(n) ==
    IF n < 10 THEN Digits[n + 1]
    ELSE FormatNat(n \div 10) \o Digits[(n % 10) + 1]

FormatInt(n) == IF n < 0 THEN "-" \o FormatNat(0 - n) ELSE FormatNat(n)

\* fmt.Sprintf("[%d,%d]", x.Low, x.High)
FormatInterval(x) == "[" \o FormatInt(x.Low) \o "," \o FormatInt(x.High) \o "]"

\* The loop `for i, x := range list { if i != 0 { text += ", " }; text += ... }`
RECURSIVE JoinIntervals(_, _, _)
JoinIntervals(text, list, i) ==
    IF i > Len(list) THEN text
    ELSE JoinIntervals(
            (IF i # 1 THEN text \o ", " ELSE text) \o FormatInterval(list[i]),
            list, i + 1)

RECURSIVE Repeat(_, _)
Repeat(s, n) == IF n <= 0 THEN "" ELSE s \o Repeat(s, n - 1)

RECURSIVE Concat(_)
Concat(symbols) ==
    IF symbols = <<>> THEN "" ELSE Head(symbols) \o Concat(Tail(symbols))

----------------------------------------------------------------------------
(* The methods *)

NewIntervals(minLow, maxHigh) ==
    [Intervals |-> <<>>, MinLow |-> minLow, MaxHigh |-> maxHigh, Sorted |-> FALSE]

\* Variant of Add that leaves the Sorted flag as it is.
AddKeepsSorted(self, itvl) ==
    [self EXCEPT !.Intervals = Append(@, itvl)]

Add(self, itvl) ==
    [self EXCEPT !.Intervals = Append(@, itvl), !.Sorted = FALSE]

\* Variant of the loop of FindIntervalsForValue that stops at the first match.
RECURSIVE FindWalkFirst(_, _, _, _)
FindWalkFirst(list, v, i, matches) ==
    IF i > Len(list) \/ matches # <<>> THEN matches
    ELSE FindWalkFirst(list, v, i + 1,
            IF inBetweenInclusive(v, list[i].Low, list[i].High)
            THEN Append(matches, list[i]) ELSE matches)

RECURSIVE FindWalk(_, _, _, _)
FindWalk(list, v, i, matches) ==
    IF i > Len(list) THEN matches
    ELSE FindWalk(list, v, i + 1,
            IF inBetweenInclusive(v, list[i].Low, list[i].High)
            THEN Append(matches, list[i]) ELSE matches)

FindIntervalsForValue(self, v) ==
    [self |-> self, ret |-> FindWalk(self.Intervals, v, 1, <<>>)]

\* Variant of Sort whose comparison is the wrong way round: the items end up
\* descending by Low.
Reverse(list) == [i \in 1 .. Len(list) |-> list[Len(list) + 1 - i]]

SortDescending(self) ==
    [self EXCEPT !.Intervals = IF ~self.Sorted THEN Reverse(SortByLow(@)) ELSE @,
                 !.Sorted = TRUE]

\* Variant of Sort that sets the flag without sorting.
SortFlagOnly(self) == [self EXCEPT !.Sorted = TRUE]

Sort(self) ==
    [self EXCEPT !.Intervals = IF ~self.Sorted THEN SortByLow(@) ELSE @,
                 !.Sorted = TRUE]

\* Variant of the loop of Gaps whose cursor is the running maximum of the
\* highs instead of the last high.
RECURSIVE GapsWalkMax(_, _, _, _)
GapsWalkMax(list, i, lastHigh, gaps) ==
    IF i > Len(list) THEN [lastHigh |-> lastHigh, gaps |-> gaps]
    ELSE GapsWalkMax(list, i + 1, max(lastHigh, list[i].High + 1),
            IF list[i].Low > lastHigh
            THEN Append(gaps, Interval(lastHigh, list[i].Low - 1))
            ELSE gaps)

\* The loop of Gaps: returns the cursor and the gaps after the walk.
RECURSIVE GapsWalk(_, _, _, _)
GapsWalk(list, i, lastHigh, gaps) ==
    IF i > Len(list) THEN [lastHigh |-> lastHigh, gaps |-> gaps]
    ELSE GapsWalk(list, i + 1, list[i].High + 1,
            IF list[i].Low > lastHigh
            THEN Append(gaps, Interval(lastHigh, list[i].Low - 1))
            ELSE gaps)

\* Variant of Gaps that builds the gaps in the receiver's own slice.
GapsInPlace(self) ==
    LET s == Sort(self)
        w == GapsWalk(s.Intervals, 1, s.MinLow, <<>>)
        gaps == IF w.lastHigh < s.MaxHigh
                THEN Append(w.gaps, Interval(w.lastHigh, s.MaxHigh))
                ELSE w.gaps
    IN  [self |-> [s EXCEPT !.Intervals = @ \o gaps], ret |-> gaps]

Gaps(self) ==
    LET s == Sort(self)
        w == GapsWalk(s.Intervals, 1, s.MinLow, <<>>)
    IN  [self |-> s,
         ret  |-> IF w.lastHigh < s.MaxHigh
                  THEN Append(w.gaps, Interval(w.lastHigh, s.MaxHigh))
                  ELSE w.gaps]

\* Variant of the loop of Overlapped that compares with the previous
\* interval only: the envelope is replaced, not widened, after each interval.
RECURSIVE OverlappedWalkPrev(_, _, _, _, _)
OverlappedWalkPrev(list, i, lastMinLow, lastMaxHigh, out) ==
    IF i > Len(list) THEN out
    ELSE LET intvl == list[i]
             lowInBetween ==
                 \/ inBetweenInclusive(lastMinLow, intvl.Low, intvl.High)
                 \/ inBetweenInclusive(intvl.Low, lastMinLow, lastMaxHigh)
             highInBetween ==
                 \/ inBetweenInclusive(lastMaxHigh, intvl.Low, intvl.High)
                 \/ inBetweenInclusive(intvl.High, lastMinLow, lastMaxHigh)
             out2 ==
                 IF i > 1 /\ (lowInBetween \/ highInBetween)
                 THEN Append(out, Interval(max(intvl.Low, lastMinLow),
                                           min(intvl.High, lastMaxHigh)))
                 ELSE out
         IN  OverlappedWalkPrev(list, i + 1, intvl.Low, intvl.High, out2)

RECURSIVE OverlappedWalk(_, _, _, _, _)
OverlappedWalk(list, i, lastMinLow, lastMaxHigh, out) ==
    IF i > Len(list) THEN out
    ELSE LET intvl == list[i]
             lowInBetween ==
                 \/ inBetweenInclusive(lastMinLow, intvl.Low, intvl.High)
                 \/ inBetweenInclusive(intvl.Low, lastMinLow, lastMaxHigh)
             highInBetween ==
                 \/ inBetweenInclusive(lastMaxHigh, intvl.Low, intvl.High)
                 \/ inBetweenInclusive(intvl.High, lastMinLow, lastMaxHigh)
             out2 ==
                 IF i > 1 /\ (lowInBetween \/ highInBetween)
                 THEN Append(out, Interval(max(intvl.Low, lastMinLow),
                                           min(intvl.High, lastMaxHigh)))
                 ELSE out
         IN  OverlappedWalk(list, i + 1,
                 IF intvl.Low < lastMinLow THEN intvl.Low ELSE lastMinLow,
                 IF intvl.High > lastMaxHigh THEN intvl.High ELSE lastMaxHigh,
                 out2)

Overlapped(self) ==
    LET s == Sort(self)
    IN  [self |-> s,
         ret  |-> OverlappedWalk(s.Intervals, 1, MaxInt64, MinInt64, <<>>)]

RECURSIVE isAnOverlapFrom(_, _, _)
isAnOverlapFrom(v, overlapped, i) ==
    IF i > Len(overlapped) THEN FALSE
    ELSE IF inBetweenInclusive(v, overlapped[i].Low, overlapped[i].High) THEN TRUE
    ELSE isAnOverlapFrom(v, overlapped, i + 1)

isAnOverlap(v, overlapped) == isAnOverlapFrom(v, overlapped, 1)

\* Print, first inner loop:
\*   for i := index; i < intvl.Low; i++ { index++; graph += emptySymbol; ... }
\* w is [index, graph, numSeparators]; graph is the sequence of symbols.
RECURSIVE EmptyRun(_, _)
EmptyRun(w, low) ==
    IF w.index < low
    THEN LET index == w.index + 1
             sep == (index % 10 = 0)
         IN  EmptyRun([index |-> index,
                       graph |-> IF sep THEN w.graph \o <<emptySymbol, separator>>
                                 ELSE Append(w.graph, emptySymbol),
                       numSeparators |-> IF sep THEN w.numSeparators + 1
                                         ELSE w.numSeparators],
                      low)
    ELSE w

\* Print, second inner loop:
\*   for i := index; i <= intvl.High; i++ { overlap or full symbol; index++; ... }
RECURSIVE FullRun(_, _, _)
FullRun(w, high, overlapped) ==
    IF w.index <= high
    THEN LET symbol == IF isAnOverlap(w.index, overlapped)
                       THEN overlapSymbol ELSE fullSymbol
             index == w.index + 1
             sep == (index % blockSize = 0)
         IN  FullRun([index |-> index,
                      graph |-> IF sep THEN w.graph \o <<symbol, separator>>
                                ELSE Append(w.graph, symbol),
                      numSeparators |-> IF sep THEN w.numSeparators + 1
                                        ELSE w.numSeparators],
                     high, overlapped)
    ELSE w

\* Print, the loop over the intervals (the graph part).
RECURSIVE GraphWalk(_, _, _, _)
GraphWalk(list, i, w, overlapped) ==
    IF i > Len(list) THEN w
    ELSE GraphWalk(list, i + 1,
            FullRun(EmptyRun(w, list[i].Low), list[i].High, overlapped),
            overlapped)

\* Print, the padding loop: for i := index; i < MaxHigh; i++ { graph += emptySymbol }
RECURSIVE Pad(_, _, _)
Pad(graph, index, maxHigh) ==
    IF index < maxHigh THEN Pad(Append(graph, emptySymbol), index + 1, maxHigh)
    ELSE graph

\* The walk of Print over a sorted receiver: [index, graph, numSeparators]
\* after the loop over the intervals.
PrintWalk(s) ==
    GraphWalk(s.Intervals, 1,
              [index |-> s.MinLow, graph |-> <<>>, numSeparators |-> 0],
              Overlapped(s).ret)

\* The symbols Print puts between the frame characters.
PrintGraph(self) ==
    LET s == Sort(self)
        w == PrintWalk(s)
    IN  Pad(w.graph, w.index, s.MaxHigh)

\* func (intvls *intervals) Print() string
PrintText(self) ==
    LET s == Sort(self)
        introText ==
            "\n==================================\n SUMMARY (minLow="
            \o FormatInt(s.MinLow) \o ", maxHigh=" \o FormatInt(s.MaxHigh)
            \o ")\n=================================="
        legend ==
            "\n " \o bullet \o " Legend: " \o emptySymbol \o " (empty), "
            \o fullSymbol \o " (full), " \o overlapSymbol \o " (overlap)"
        overlapText ==
            JoinIntervals("\n " \o bullet \o " Overlapped: ", Overlapped(s).ret, 1)
        intervalText ==
            JoinIntervals("\n " \o bullet \o " Intervals: ", s.Intervals, 1)
        gapsText ==
            JoinIntervals("\n " \o bullet \o " Gaps: ", Gaps(s).ret, 1)
        w == PrintWalk(s)
        axisLegend ==
            " " \o FormatInt(s.MinLow)
            \o Repeat(" ", (s.MaxHigh + w.numSeparators - 2) - s.MinLow)
            \o FormatInt(s.MaxHigh)
        graphText ==
            "\n\n" \o axisLegend \o "\n" \o frameLeft
            \o Concat(PrintGraph(s)) \o frameRight
    IN  [self |-> s,
         ret  |-> "\n" \o introText \o legend \o intervalText \o gapsText
                  \o overlapText \o graphText \o "\n"]

----------------------------------------------------------------------------
(* The inputs *)

\* The general pool: coordinates around the first block boundary of Print.
CoordMin == blockSize - 1
CoordMax == CoordMin + Width
Coords == CoordMin .. CoordMax

\* Every well-formed interval over Coords, and one with low > high (Add
\* accepts it: the core validates nothing).
WellFormed == {Interval(p[1], p[2]) : p \in {q \in Coords \X Coords : q[1] <= q[2]}}
Malformed == {Interval(CoordMin + 1, CoordMin)}
Pool == WellFormed \cup Malformed

\* Domain of the general specification: Coords less its last unit, so that
\* some intervals of the pool lie inside the domain and some reach beyond it.
GeneralDomain == <<CoordMin, CoordMax - 1>>

\* The end-to-end scenario: domain [0,40], intervals [5,10], [8,15], [30,35].
E2EDomain == <<0, 40>>
E2EPool == {Interval(5, 10), Interval(8, 15), Interval(30, 35)}

\* The nesting scenario: domain [0,20], intervals [0,10] and [2,3].
NestDomain == <<0, 20>>
NestPool == {Interval(0, 10), Interval(2, 3)}

\* The values FindIntervalsForValue is called with: every bound of an input.
Values == UNION {{it.Low, it.High} : it \in inputs}

----------------------------------------------------------------------------
(* The state machine *)

InitWith(minLow, maxHigh, pool) ==
    /\ intvls = NewIntervals(minLow, maxHigh)
    /\ inputs = pool
    /\ added = <<>>
    /\ lastOp = "NewIntervals"
    /\ value = minLow
    /\ result = <<>>
    /\ output = ""

Init == InitWith(GeneralDomain[1], GeneralDomain[2], Pool)

CallAdd ==
    /\ Len(intvls.Intervals) < MaxItems
    /\ \E itvl \in inputs :
        /\ intvls' = Add(intvls, itvl)
        /\ added' = Append(added, itvl)
    /\ lastOp' = "Add"
    /\ value' = intvls.MinLow
    /\ result' = <<>>
    /\ output' = ""
    /\ UNCHANGED inputs

CallFindIntervalsForValue ==
    \E v \in Values :
        LET r == FindIntervalsForValue(intvls, v)
        IN  /\ intvls' = r.self
            /\ result' = r.ret
            /\ value' = v
            /\ lastOp' = "FindIntervalsForValue"
            /\ output' = ""
            /\ UNCHANGED <<inputs, added>>

CallSort ==
    /\ intvls' = Sort(intvls)
    /\ lastOp' = "Sort"
    /\ value' = intvls.MinLow
    /\ result' = <<>>
    /\ output' = ""
    /\ UNCHANGED <<inputs, added>>

CallGaps ==
    LET r == Gaps(intvls)
    IN  /\ intvls' = r.self
        /\ result' = r.ret
        /\ lastOp' = "Gaps"
        /\ value' = intvls.MinLow
        /\ output' = ""
        /\ UNCHANGED <<inputs, added>>

CallOverlapped ==
    LET r == Overlapped(intvls)
    IN  /\ intvls' = r.self
        /\ result' = r.ret
        /\ lastOp' = "Overlapped"
        /\ value' = intvls.MinLow
        /\ output' = ""
        /\ UNCHANGED <<inputs, added>>

CallPrint ==
    LET r == PrintText(intvls)
    IN  /\ intvls' = r.self
        /\ output' = r.ret
        /\ lastOp' = "Print"
        /\ value' = intvls.MinLow
        /\ result' = <<>>
        /\ UNCHANGED <<inputs, added>>

Next ==
    \/ CallAdd
    \/ CallFindIntervalsForValue
    \/ CallSort
    \/ CallGaps
    \/ CallOverlapped
    \/ CallPrint

Spec == Init /\ [][Next]_vars

\* The end-to-end scenario on this collection: NewIntervals(0, 40), then Add
\* of the scenario's intervals.
InitE2E == InitWith(E2EDomain[1], E2EDomain[2], E2EPool)
SpecE2E == InitE2E /\ [][Next]_vars

InitNest == InitWith(NestDomain[1], NestDomain[2], NestPool)
SpecNest == InitNest /\ [][Next]_vars

----------------------------------------------------------------------------
(* Vocabulary of the properties *)

items == intvls.Intervals

Covers(it, u) == it.Low <= u /\ u <= it.High

IsWellFormed(it) == it.Low <= it.High

\* list is ordered ascending (non-decreasing) by Low.
AscendingByLow(list) ==
    \A i \in 1 .. (Len(list) - 1) : list[i].Low <= list[i + 1].Low

\* Number of positions of list that hold x.
Count(list, x) == Cardinality({i \in 1 .. Len(list) : list[i] = x})

\* a and b hold the same elements the same number of times.
SameMultiset(a, b) ==
    /\ Len(a) = Len(b)
    /\ \A i \in 1 .. Len(a) : Count(a, a[i]) = Count(b, a[i])

\* The elements of list that contain v, in the order of list.
Matching(list, v) == SelectSeq(list, LAMBDA it : Covers(it, v))

SortDependent == {"Sort", "Gaps", "Overlapped", "Print"}

----------------------------------------------------------------------------
(* C3: the Sorted flag *)

\* C3: in every reachable state Sorted = TRUE implies that the items are
\* ascending by Low; Add leaves Sorted = FALSE; Sort, Gaps, Overlapped and
\* Print leave Sorted = TRUE with the items ascending by Low.
C3_SortedFlag ==
    /\ intvls.Sorted => AscendingByLow(items)
    /\ lastOp = "Add" => ~intvls.Sorted
    /\ lastOp \in SortDependent => intvls.Sorted /\ AscendingByLow(items)

\* An Add after a sort has put a smaller Low at the end: flag down, items
\* out of order.
C3_Witness ==
    /\ lastOp = "Add"
    /\ Len(items) = 3
    /\ AscendingByLow(SubSeq(items, 1, 2))
    /\ items[1] # added[1]
    /\ ~AscendingByLow(items)
    /\ ~intvls.Sorted

----------------------------------------------------------------------------
(* C4: Sort is idempotent *)

\* C4: for every collection state, a second Sort() right after a first one
\* leaves exactly the items sequence the first one left, and that sequence
\* is ascending by Low.
C4_SortIdempotent ==
    /\ Sort(Sort(intvls)).Intervals = Sort(intvls).Intervals
    /\ AscendingByLow(Sort(intvls).Intervals)
    /\ lastOp = "Sort" => Sort(intvls) = intvls /\ AscendingByLow(items)

\* Sort has just reordered three items; calling it again changes nothing.
C4_Witness ==
    /\ lastOp = "Sort"
    /\ Len(items) = 3
    /\ items # added
    /\ Sort(intvls) = intvls

----------------------------------------------------------------------------
(* C5: FindIntervalsForValue *)

\* C5: FindIntervalsForValue(v) returns exactly the items with
\* Low <= v <= High, in the order in which they stand in items (empty when
\* none matches), and changes neither items nor the Sorted flag; as long as
\* only Add and FindIntervalsForValue have been called, items is the
\* insertion order, and so is the order of the result.
C5_FindStep ==
    /\ lastOp' = "FindIntervalsForValue" =>
          /\ intvls' = intvls
          /\ result' = Matching(items, value')
    /\ (items = added /\ lastOp' \in {"Add", "FindIntervalsForValue"}) =>
          intvls'.Intervals = added'

C5_Find == [][C5_FindStep]_vars

\* Two of three unsorted items contain the value, one at its low end and
\* one at its high end; the third starts right after it.
C5_Witness ==
    /\ lastOp = "FindIntervalsForValue"
    /\ Len(items) = 3
    /\ items = added
    /\ ~AscendingByLow(items)
    /\ Len(result) = 2
    /\ \E i \in 1 .. 3 : items[i].Low = value /\ items[i].High > value
    /\ \E i \in 1 .. 3 : items[i].High = value /\ items[i].Low < value
    /\ \E i \in 1 .. 3 : items[i].Low = value + 1

----------------------------------------------------------------------------
(* C10: what the operations leave alone *)

\* C10: after any sequence of calls MinLow and MaxHigh are unchanged, and
\* items is a permutation of the multiset of all intervals added so far:
\* Add appends exactly one element at the end, every other call at most
\* reorders the items.
C10_FrameStep ==
    /\ intvls'.MinLow = intvls.MinLow
    /\ intvls'.MaxHigh = intvls.MaxHigh
    /\ lastOp' = "Add" =>
          /\ Len(added') = Len(added) + 1
          /\ intvls'.Intervals = Append(items, added'[Len(added')])
    /\ lastOp' # "Add" => SameMultiset(intvls'.Intervals, items)

C10_Frame == [](SameMultiset(items, added)) /\ [][C10_FrameStep]_vars

\* Three items, one of them twice, reordered by a query that returned
\* something.
C10_Witness ==
    /\ lastOp = "Gaps"
    /\ result # <<>>
    /\ Len(items) = 3
    /\ items # added
    /\ \E i \in 1 .. 3 : Count(items, items[i]) = 2
    /\ SameMultiset(items, added)

----------------------------------------------------------------------------
(* C9: Overlapped and shared coverage *)

\* The units looked at: from one below the least bound of an input to one
\* above the greatest.
AllUnits ==
    LET bs == UNION {{it.Low, it.High} : it \in inputs}
        lo == CHOOSE b \in bs : \A c \in bs : b <= c
        hi == CHOOSE b \in bs : \A c \in bs : b >= c
    IN  (lo - 1) .. (hi + 1)

\* u is contained in at least two items (two positions of the list).
Shared(list, u) ==
    \E i, j \in 1 .. Len(list) : i # j /\ Covers(list[i], u) /\ Covers(list[j], u)

InSome(list, u) == \E i \in 1 .. Len(list) : Covers(list[i], u)

\* C9: for well-formed items, a unit lies inside some interval returned by
\* Overlapped() iff at least two items contain it, and every returned
\* interval has Low <= High.
C9_OverlapExact ==
    (lastOp = "Overlapped" /\ \A i \in 1 .. Len(items) : IsWellFormed(items[i])) =>
        /\ \A u \in AllUnits : InSome(result, u) <=> Shared(items, u)
        /\ \A k \in 1 .. Len(result) : IsWellFormed(result[k])

\* Three well-formed items: the third is disjoint from the second and meets
\* the envelope only through the first; one overlap is emitted for it.
C9_Witness ==
    /\ lastOp = "Overlapped"
    /\ Len(items) = 3
    /\ \A i \in 1 .. 3 : IsWellFormed(items[i])
    /\ items[2].High < items[3].Low
    /\ items[1].High >= items[3].Low
    /\ Len(result) = 2
    /\ \A u \in AllUnits : InSome(result, u) <=> Shared(items, u)

----------------------------------------------------------------------------
(* C2: Print and the insertion order *)

\* Every order in which the intervals of seq can be added.
Orders(seq) ==
    LET n == Len(seq)
        bij == {f \in [1 .. n -> 1 .. n] : \A i, j \in 1 .. n : f[i] = f[j] => i = j}
    IN  {[i \in 1 .. n |-> seq[f[i]]] : f \in bij}

\* The collection built by NewIntervals and one Add per element of seq.
RECURSIVE AddAll(_, _, _)
AddAll(self, seq, i) ==
    IF i > Len(seq) THEN self ELSE AddAll(Add(self, seq[i]), seq, i + 1)

Built(seq) == AddAll(NewIntervals(intvls.MinLow, intvls.MaxHigh), seq, 1)

\* Print() of every collection built from the added intervals in some other
\* order equals the Print() output just returned.
SamePrintInEveryOrder ==
    \A seq \in Orders(added) : PrintText(Built(seq)).ret = output

\* Intervals of the multiset that share a Low are equal.
TiesAreEqual(seq) ==
    \A i, j \in 1 .. Len(seq) : seq[i].Low = seq[j].Low => seq[i] = seq[j]

\* C2 as stated: two collections with the same domain, built by Add of the
\* same multiset of intervals in different orders, print the same text, for
\* every multiset, also with intervals that share a Low and differ in High.
C2_AnyMultiset == lastOp = "Print" => SamePrintInEveryOrder

\* C2 amended: the same, for the multisets in which intervals that share a
\* Low bound are equal.
C2_DistinctLows ==
    (lastOp = "Print" /\ TiesAreEqual(added)) => SamePrintInEveryOrder

\* Three intervals with three different lows, added out of order, printed.
C2_Witness ==
    /\ lastOp = "Print"
    /\ Len(added) = 3
    /\ TiesAreEqual(added)
    /\ Cardinality({added[i].Low : i \in 1 .. 3}) = 3
    /\ ~AscendingByLow(added)
    /\ SamePrintInEveryOrder

----------------------------------------------------------------------------
(* C1: items and gaps tile the domain *)

Domain == intvls.MinLow .. intvls.MaxHigh

InsideDomain(it) == intvls.MinLow <= it.Low /\ it.High <= intvls.MaxHigh

\* Well-formed, inside the domain, pairwise without a common unit.
TilingInput(list) ==
    /\ intvls.MinLow <= intvls.MaxHigh
    /\ \A i \in 1 .. Len(list) : IsWellFormed(list[i]) /\ InsideDomain(list[i])
    /\ \A i, j \in 1 .. Len(list) :
          i # j => (list[i].High < list[j].Low \/ list[j].High < list[i].Low)

\* Number of members of list that contain u.
Coverage(list, u) == Cardinality({i \in 1 .. Len(list) : Covers(list[i], u)})

\* C1: for well-formed, in-domain, pairwise disjoint items (or none), the
\* items and the intervals returned by Gaps() tile the domain: every unit of
\* the domain is in exactly one item or gap, and no item or gap holds a unit
\* outside the domain.
C1_Tiling ==
    (lastOp = "Gaps" /\ TilingInput(items)) =>
        /\ \A u \in Domain : Coverage(items, u) + Coverage(result, u) = 1
        /\ \A k \in 1 .. Len(result) :
              IsWellFormed(result[k]) /\ InsideDomain(result[k])

----------------------------------------------------------------------------
(* C7: the graph of Print *)

\* The symbols of a graph that are not separators.
UnitSymbols(graph) == SelectSeq(graph, LAMBDA x : x # separator)

\* The symbol the graph is to show for unit u.
ExpectedSymbol(u) ==
    IF ~InSome(items, u) THEN emptySymbol
    ELSE IF InSome(Overlapped(intvls).ret, u) THEN overlapSymbol
    ELSE fullSymbol

\* C7: for well-formed items inside the domain (or none), the graph of
\* Print() holds MaxHigh - MinLow + 1 symbols that are not separators, one
\* per unit of the domain in ascending order: empty iff no item contains the
\* unit, overlap iff an item and an interval of Overlapped() contain it,
\* full otherwise.
C7_GraphPerUnit ==
    (/\ lastOp = "Print"
     /\ \A i \in 1 .. Len(items) : IsWellFormed(items[i]) /\ InsideDomain(items[i]))
    => LET g == UnitSymbols(PrintGraph(intvls))
       IN  /\ Len(g) = intvls.MaxHigh - intvls.MinLow + 1
           /\ \A u \in Domain :
                 (u - intvls.MinLow + 1) \in 1 .. Len(g)
                 /\ g[u - intvls.MinLow + 1] = ExpectedSymbol(u)

----------------------------------------------------------------------------
(* C6: the end-to-end scenario *)

IsE2E == Len(added) = 3 /\ {added[i] : i \in 1 .. 3} = E2EPool

\* C6: in domain [0,40], with [5,10], [8,15], [30,35] added in any order,
\* the sorted items are [5,10],[8,15],[30,35], Gaps() returns
\* [0,4],[16,29],[36,40] and Overlapped() returns [8,10] alone.
C6_EndToEnd ==
    IsE2E =>
        /\ lastOp \in SortDependent =>
              items = <<Interval(5, 10), Interval(8, 15), Interval(30, 35)>>
        /\ lastOp = "Gaps" =>
              result = <<Interval(0, 4), Interval(16, 29), Interval(36, 40)>>
        /\ lastOp = "Overlapped" => result = <<Interval(8, 10)>>

\* Added as [30,35], [8,15], [5,10]; Gaps has returned the three gaps.
C6_Witness ==
    /\ added = <<Interval(30, 35), Interval(8, 15), Interval(5, 10)>>
    /\ lastOp = "Gaps"
    /\ items = <<Interval(5, 10), Interval(8, 15), Interval(30, 35)>>
    /\ result = <<Interval(0, 4), Interval(16, 29), Interval(36, 40)>>

----------------------------------------------------------------------------
(* C8: the cursor of Gaps on a nested interval *)

IsNest == Len(added) = 2 /\ {added[i] : i \in 1 .. 2} = NestPool

\* C8: in domain [0,20], with [0,10] and [2,3] added in either order, Gaps()
\* returns the one gap [4,20], although [0,10] contains the units 4..10.
C8_NestedCursor ==
    (IsNest /\ lastOp = "Gaps") =>
        /\ result = <<Interval(4, 20)>>
        /\ \A u \in 4 .. 10 : InSome(items, u) /\ InSome(result, u)

\* Added as [2,3], [0,10]; Gaps has returned [4,20].
C8_Witness ==
    /\ added = <<Interval(2, 3), Interval(0, 10)>>
    /\ lastOp = "Gaps"
    /\ result = <<Interval(4, 20)>>

====
